---- MODULE Spec2Model ----
(***************************************************************************)
(* Model of box_1000x500x20_20250514_457e4a.py: a one-shot script that     *)
(* lays out a staggered grid of hexagonal holes on a rectangular plate,    *)
(* cuts them out of a box through the CAD kernel and exports the result.   *)
(*                                                                         *)
(* Numbers.  The script computes in binary floating point (Python float).  *)
(* A quantity is modelled as an integer count of grid units, MM units to   *)
(* the millimetre, and every arithmetic operation of the source is the     *)
(* exact operation followed by rounding to PrecBits significant bits,      *)
(* round-to-nearest, ties-to-even (Rnd).  Python's float has 53            *)
(* significant bits; PrecBits is the reduced width the model is explored   *)
(* at.  The grid is fine enough that every rounded result of the inputs    *)
(* below lies on it.                                                       *)
(***************************************************************************)
EXTENDS Integers, Sequences, FiniteSets, TLC

(***************************************************************************)
(* Bounds of the exploration.                                              *)
(***************************************************************************)
PrecBits == 8       \* significant bits of the modelled floating point
MaxLen   == 8       \* plate_length literals: 1..MaxLen half-millimetres
MaxWid   == 5       \* plate_width  literals: 1..MaxWid half-millimetres
MaxFine  == 1       \* plate_length literals are also offset by 0..MaxFine fine steps

MM   == 2^(PrecBits + 2)          \* grid units per millimetre
Ulp1 == MM \div 2^(PrecBits - 1)  \* spacing of the floats in [1 mm, 2 mm)

(***************************************************************************)
(* Floating-point arithmetic.                                              *)
(***************************************************************************)
Abs(x) == IF x < 0 THEN -x ELSE x

RECURSIVE FloorLog2(_)
FloorLog2(a) == IF a < 2 THEN 0 ELSE 1 + FloorLog2(a \div 2)

\* n/d rounded to the nearest integer, ties to the even one (n >= 0, d > 0)
RoundDiv(n, d) ==
    LET q == n \div d
        r == n % d
    IN  IF 2 * r < d THEN q
        ELSE IF 2 * r > d THEN q + 1
        ELSE IF q % 2 = 0 THEN q ELSE q + 1

\* the float nearest to the real number x (x on the grid)
Rnd(x) ==
    LET a == Abs(x)
    IN  IF a < 2^PrecBits THEN x
        ELSE LET step == 2^(FloorLog2(a) - PrecBits + 1)
                 r    == RoundDiv(a, step) * step
             IN  IF x < 0 THEN -r ELSE r

Fadd(a, b) == Rnd(a + b)
Fsub(a, b) == Rnd(a - b)
FmulInt(n, p) == Rnd(n * p)      \* int * float
Half(x) == x \div 2              \* x / 2.0: exact, x is even on this grid

\* the binary exponent e of a/p: 2^e <= a/p < 2^(e+1), for a >= p > 0
RECURSIVE QuotExp(_, _)
QuotExp(a, p) == IF a < 2 * p THEN 0 ELSE 1 + QuotExp(a, 2 * p)

\* int(a / p) for a >= 0, p > 0: the float quotient, then truncation
IntQuotPos(a, p) ==
    IF a < p
    THEN \* the quotient is below 1 and rounds up to 1.0 only from the last half ulp
         IF a * 2^(PrecBits + 1) >= p * (2^(PrecBits + 1) - 1) THEN 1 ELSE 0
    ELSE LET e == QuotExp(a, p)
             k == PrecBits - 1 - e
         IN  IF k >= 0
             THEN RoundDiv(a * 2^k, p) \div 2^k
             ELSE RoundDiv(a, p * 2^(-k)) * 2^(-k)

\* int(a / p), p > 0: int() truncates toward zero
IntQuot(a, p) == IF a >= 0 THEN IntQuotPos(a, p) ELSE -IntQuotPos(-a, p)


(***************************************************************************)
(* Parameters (mm).  tol = 1e-6 mm lies strictly between 0 and one grid    *)
(* unit, so it enters the model only through the two comparisons it is     *)
(* used in.                                                                *)
(***************************************************************************)
TolInv == 1000000                \* tol = 1 / TolInv millimetres

\* the smallest grid value x with x >= -tol
NegTol == -(MM \div TolInv)

\* the largest grid value y with y <= x + tol, the sum rounded or not
PlusTol(x) == x + (MM \div TolInv)

\* the script's own parameter values
ScriptParams ==
    [plate_length |-> 100 * MM, plate_width |-> 50 * MM,
     hole_diameter |-> 5 * MM, pitch_x |-> 10 * MM, pitch_y |-> 10 * MM]

\* the parameter values explored: the literal as written, parsed to the
\* nearest float
Lengths   == { Rnd(k * (MM \div 2) + f * 2 * Ulp1) : k \in 1..MaxLen, f \in 0..MaxFine }
Widths    == { Rnd(k * (MM \div 2)) : k \in 1..MaxWid }
Diameters == { MM \div 2, MM }
PitchesX  == { MM, MM + Ulp1, 3 * (MM \div 2) }
PitchesY  == { MM, 3 * (MM \div 2) }

ParamSets ==
    [plate_length : Lengths, plate_width : Widths, hole_diameter : Diameters,
     pitch_x : PitchesX, pitch_y : PitchesY]
    \cup {ScriptParams}

(***************************************************************************)
(* Grid layout computation.                                                *)
(***************************************************************************)
\* NCount with the "+ 1" forgotten
NCount_NoPlusOne(len, diam, pitch) ==
    IF len < diam THEN 0 ELSE IntQuot(Fsub(len, diam), pitch)

\* NCount with the quotient rounded up instead of truncated
NCount_Ceil(len, diam, pitch) ==
    IF len < diam THEN 0
    ELSE IntQuot(Fsub(len, diam), pitch)
            + (IF Fsub(len, diam) % pitch = 0 THEN 1 ELSE 2)

\* NCount without the test that the hole fits
NCount_NoFitCheck(len, diam, pitch) == IntQuot(Fsub(len, diam), pitch) + 1

\* n_cols / n_rows from the plate dimension, the hole diameter and the pitch
NCount(len, diam, pitch) ==
    IF len < diam THEN 0 ELSE IntQuot(Fsub(len, diam), pitch) + 1

\* span_x / span_y, computed only when the count is positive
Span(n, diam, pitch) == Fadd(FmulInt(n - 1, pitch), diam)

\* Margin with the division by two forgotten
Margin_NotHalved(n, len, diam, pitch) ==
    IF n > 0 THEN Fsub(len, Span(n, diam, pitch)) ELSE len

\* margin_x / margin_y
Margin(n, len, diam, pitch) ==
    IF n > 0 THEN Half(Fsub(len, Span(n, diam, pitch))) ELSE Half(len)

(***************************************************************************)
(* Hole enumeration.                                                       *)
(***************************************************************************)
\* cy of a row
RowCy(my, r, rw, py) == Fadd(Fadd(my, r), FmulInt(rw, py))

\* XOffset growing with the row instead of alternating
XOffset_Accumulating(rw, px) == rw * Half(px)

\* stagger odd rows by half the X pitch
XOffset(rw, px) == IF rw % 2 = 1 THEN Half(px) ELSE 0

\* cx of a column
ColCx(mx, r, cl, px, xoff) == Fadd(Fadd(Fadd(mx, r), FmulInt(cl, px)), xoff)

\* BoundaryOK without the test of the right-hand edge
BoundaryOK_NoUpperX(cx, cy, r, len, wid) ==
    /\ Fsub(cx, r) >= NegTol
    /\ Fsub(cy, r) >= NegTol
    /\ Fadd(cy, r) <= PlusTol(wid)

\* BoundaryOK testing the centre instead of the circumcircle
BoundaryOK_CentreOnly(cx, cy, r, len, wid) ==
    /\ cx >= NegTol
    /\ cx <= PlusTol(len)
    /\ cy >= NegTol
    /\ cy <= PlusTol(wid)

\* boundary check
BoundaryOK(cx, cy, r, len, wid) ==
    /\ Fsub(cx, r) >= NegTol
    /\ Fadd(cx, r) <= PlusTol(len)
    /\ Fsub(cy, r) >= NegTol
    /\ Fadd(cy, r) <= PlusTol(wid)

\* AppendHole inserting at the front
AppendHole_Front(tools, h) == <<h>> \o tools

\* hole_tools.append(hole)
AppendHole(tools, h) == Append(tools, h)

\* CutNeeded without the special case of an empty tool list
CutNeeded_Always(tools) == TRUE

\* the branch of the boolean cut
CutNeeded(tools) == tools # <<>>

\* AfterFailure with the exception swallowed: the script goes on
AfterFailure_Swallowed(next) == next

\* an exception raised by a kernel or export call is not caught
AfterFailure(next) == "failed"

(***************************************************************************)
(* State of the run.                                                       *)
(***************************************************************************)
VARIABLES
    plate_length, plate_width, hole_diameter, hole_radius, pitch_x, pitch_y,
    n_cols, n_rows, span_x, span_y, margin_x, margin_y,
    base_plate,      \* "none" until Part.makeBox has returned the box
    row, col,        \* the loop variables of the two for loops
    cy, x_offset,    \* set at the head of each row
    hole_tools,      \* the accepted holes, each with the grid position it was built at
    evaluated,       \* number of grid positions the boundary check has been applied to
    compound_holes,  \* the argument of each Part.makeCompound call, in order
    cut_tools,       \* the argument of each base_plate.cut call, in order
    result_shape,    \* "none", "base_plate" or "cut"
    plate_obj,       \* the shape assigned to the registered document object
    exported,        \* files written so far
    calls,           \* kernel and file-system calls started so far, in order
    pc               \* the statement the script is at

params == <<plate_length, plate_width, hole_diameter, hole_radius, pitch_x, pitch_y>>
layout == <<n_cols, n_rows, span_x, span_y, margin_x, margin_y>>
loop   == <<row, col, cy, x_offset, hole_tools, evaluated>>
shapes == <<compound_holes, cut_tools, result_shape, plate_obj>>
vars   == <<params, layout, base_plate, loop, shapes, exported, calls, pc>>

Undef == -1   \* a name not assigned yet

Init ==
    /\ \E q \in ParamSets :
          /\ plate_length  = q.plate_length
          /\ plate_width   = q.plate_width
          /\ hole_diameter = q.hole_diameter
          /\ hole_radius   = Half(q.hole_diameter)
          /\ pitch_x       = q.pitch_x
          /\ pitch_y       = q.pitch_y
    /\ n_cols = Undef /\ n_rows = Undef
    /\ span_x = Undef /\ span_y = Undef
    /\ margin_x = 0 /\ margin_y = 0
    /\ base_plate = "none"
    /\ row = 0 /\ col = 0 /\ cy = 0 /\ x_offset = 0
    /\ hole_tools = <<>>
    /\ evaluated = 0
    /\ compound_holes = <<>> /\ cut_tools = <<>>
    /\ result_shape = "none"
    /\ plate_obj = "none"
    /\ exported = {}
    /\ calls = <<>>
    /\ pc = "layout"

(***************************************************************************)
(* The statements of the script, in order.                                 *)
(***************************************************************************)
\* Compute number of holes and margins
ComputeLayout ==
    /\ pc = "layout"
    /\ LET nc == NCount(plate_length, hole_diameter, pitch_x)
           nr == NCount(plate_width, hole_diameter, pitch_y)
       IN  /\ n_cols' = nc
           /\ span_x' = IF nc > 0 THEN Span(nc, hole_diameter, pitch_x) ELSE Undef
           /\ margin_x' = Margin(nc, plate_length, hole_diameter, pitch_x)
           /\ n_rows' = nr
           /\ span_y' = IF nr > 0 THEN Span(nr, hole_diameter, pitch_y) ELSE Undef
           /\ margin_y' = Margin(nr, plate_width, hole_diameter, pitch_y)
    /\ pc' = "makeBox"
    /\ UNCHANGED <<params, base_plate, loop, shapes, exported, calls>>

\* Create the base plate
MakeBasePlate ==
    /\ pc = "makeBox"
    /\ calls' = Append(calls, "makeBox")
    /\ \/ /\ base_plate' = "box"
          /\ pc' = "row"
       \/ /\ base_plate' = base_plate
          /\ pc' = AfterFailure("row")
    /\ UNCHANGED <<params, layout, loop, shapes, exported>>

\* for row in range(n_rows): the head of a row, or the end of the loop
RowStep ==
    /\ pc = "row"
    /\ IF row < n_rows
       THEN /\ cy' = RowCy(margin_y, hole_radius, row, pitch_y)
            /\ x_offset' = XOffset(row, pitch_x)
            /\ col' = 0
            /\ pc' = "col"
       ELSE /\ pc' = "cut"
            /\ UNCHANGED <<cy, x_offset, col>>
    /\ UNCHANGED <<params, layout, base_plate, row, hole_tools, evaluated,
                   shapes, exported, calls>>

\* for col in range(n_cols): one grid position, or the end of the row
ColStep ==
    /\ pc = "col"
    /\ IF col < n_cols
       THEN LET cx == ColCx(margin_x, hole_radius, col, pitch_x, x_offset)
            IN  /\ evaluated' = evaluated + 1
                /\ IF BoundaryOK(cx, cy, hole_radius, plate_length, plate_width)
                   THEN /\ calls' = Append(calls, "make_hexagon_hole")
                        /\ \/ /\ hole_tools' = AppendHole(hole_tools,
                                     [row |-> row, col |-> col, cx |-> cx, cy |-> cy])
                              /\ col' = col + 1
                              /\ pc' = "col"
                           \/ /\ pc' = AfterFailure("col")
                              /\ UNCHANGED <<hole_tools, col>>
                   ELSE /\ col' = col + 1
                        /\ pc' = "col"
                        /\ UNCHANGED <<hole_tools, calls>>
                /\ row' = row
       ELSE /\ row' = row + 1
            /\ pc' = "row"
            /\ UNCHANGED <<col, hole_tools, evaluated, calls>>
    /\ UNCHANGED <<params, layout, base_plate, cy, x_offset, shapes, exported>>

\* Boolean cut: subtract all holes at once
BooleanCut ==
    /\ pc = "cut"
    /\ IF CutNeeded(hole_tools)
       THEN \/ /\ calls' = calls \o <<"makeCompound", "cut">>
               /\ compound_holes' = Append(compound_holes, hole_tools)
               /\ cut_tools' = Append(cut_tools, hole_tools)
               /\ result_shape' = "cut"
               /\ pc' = "register"
            \/ /\ calls' = calls \o <<"makeCompound", "cut">>
               /\ compound_holes' = Append(compound_holes, hole_tools)
               /\ cut_tools' = Append(cut_tools, hole_tools)
               /\ pc' = AfterFailure("register")
               /\ UNCHANGED result_shape
            \/ /\ calls' = Append(calls, "makeCompound")
               /\ compound_holes' = Append(compound_holes, hole_tools)
               /\ pc' = AfterFailure("register")
               /\ UNCHANGED <<cut_tools, result_shape>>
       ELSE /\ result_shape' = "base_plate"
            /\ pc' = "register"
            /\ UNCHANGED <<calls, compound_holes, cut_tools>>
    /\ UNCHANGED <<params, layout, base_plate, loop, plate_obj, exported>>

\* Create and register final object
Register ==
    /\ pc = "register"
    /\ calls' = Append(calls, "addObject")
    /\ \/ /\ plate_obj' = result_shape
          /\ pc' = "makedirs"
       \/ /\ pc' = AfterFailure("makedirs")
          /\ UNCHANGED plate_obj
    /\ UNCHANGED <<params, layout, base_plate, loop, compound_holes, cut_tools,
                   result_shape, exported>>

\* os.makedirs(output_dir_abs, exist_ok=True)
MakeDirs ==
    /\ pc = "makedirs"
    /\ calls' = Append(calls, "makedirs")
    /\ \/ pc' = "exportStep"
       \/ pc' = AfterFailure("exportStep")
    /\ UNCHANGED <<params, layout, base_plate, loop, shapes, exported>>

\* Import.export([plate_obj], step_filename_abs)
ExportStep ==
    /\ pc = "exportStep"
    /\ calls' = Append(calls, "exportStep")
    /\ \/ /\ exported' = exported \cup {"step"}
          /\ pc' = "exportObj"
       \/ /\ pc' = AfterFailure("exportObj")
          /\ UNCHANGED exported
    /\ UNCHANGED <<params, layout, base_plate, loop, shapes>>

\* Mesh.export([plate_obj], obj_filename_abs)
ExportObj ==
    /\ pc = "exportObj"
    /\ calls' = Append(calls, "exportObj")
    /\ \/ /\ exported' = exported \cup {"obj"}
          /\ pc' = "done"
       \/ /\ pc' = AfterFailure("done")
          /\ UNCHANGED exported
    /\ UNCHANGED <<params, layout, base_plate, loop, shapes>>

Next ==
    \/ ComputeLayout
    \/ MakeBasePlate
    \/ RowStep
    \/ ColStep
    \/ BooleanCut
    \/ Register
    \/ MakeDirs
    \/ ExportStep
    \/ ExportObj

Spec == Init /\ [][Next]_vars

(***************************************************************************)
(* Auxiliary predicates used to state the properties.                      *)
(***************************************************************************)
RECURSIVE GCD(_, _)
GCD(a, b) == IF b = 0 THEN a ELSE GCD(b, a % b)

RECURSIVE OddPart(_)
OddPart(n) == IF n = 0 \/ n % 2 = 1 THEN n ELSE OddPart(n \div 2)

\* x is a float: it needs no rounding
Exact(x) == OddPart(Abs(x)) < 2^PrecBits

\* the real quotient a / p is a float (a >= 0, p > 0)
QuotExact(a, p) ==
    LET g == GCD(a, p)
    IN  /\ OddPart(p \div g) = 1
        /\ OddPart(a \div g) < 2^PrecBits

\* no operation of the layout computation along one axis rounds
LayoutExact(len, diam, pitch) ==
    len >= diam =>
        LET n == (len - diam) \div pitch + 1
        IN  /\ Exact(len - diam)
            /\ QuotExact(len - diam, pitch)
            /\ Exact((n - 1) * pitch)
            /\ Exact((n - 1) * pitch + diam)
            /\ Exact(len - ((n - 1) * pitch + diam))

\* no operation of the centre computation and boundary check at (rw, cl) rounds
CentreExact(rw, cl) ==
    LET xo == IF rw % 2 = 1 THEN pitch_x \div 2 ELSE 0
    IN  /\ Exact(margin_x + hole_radius)
        /\ Exact(cl * pitch_x)
        /\ Exact(margin_x + hole_radius + cl * pitch_x)
        /\ Exact(margin_x + hole_radius + cl * pitch_x + xo)
        /\ Exact(margin_x + cl * pitch_x + xo)
        /\ Exact(margin_x + 2 * hole_radius + cl * pitch_x + xo)
        /\ Exact(margin_y + hole_radius)
        /\ Exact(rw * pitch_y)
        /\ Exact(margin_y + hole_radius + rw * pitch_y)
        /\ Exact(margin_y + rw * pitch_y)
        /\ Exact(margin_y + 2 * hole_radius + rw * pitch_y)

\* the run computes in exact arithmetic: no operation of the layout or of the
\* enumeration rounds
ExactRun ==
    /\ LayoutExact(plate_length, hole_diameter, pitch_x)
    /\ LayoutExact(plate_width, hole_diameter, pitch_y)
    /\ pc # "layout" =>
          \A rw \in 0..(n_rows - 1) : \A cl \in 0..(n_cols - 1) : CentreExact(rw, cl)

IsScript ==
    /\ plate_length = 100 * MM /\ plate_width = 50 * MM
    /\ hole_diameter = 5 * MM /\ pitch_x = 10 * MM /\ pitch_y = 10 * MM

LayoutDone == pc # "layout"

\* the enumeration loop has run to its end
EnumDone == pc \in {"cut", "register", "makedirs", "exportStep", "exportObj", "done"}

\* every halved quantity is even and every input is a float
GridOK ==
    /\ hole_diameter % 2 = 0 /\ pitch_x % 2 = 0 /\ pitch_y % 2 = 0
    /\ 2 * hole_radius = hole_diameter
    /\ \A x \in {plate_length, plate_width, hole_diameter, pitch_x, pitch_y} :
          x > 0 /\ Rnd(x) = x /\ x >= 2^PrecBits
    /\ LayoutDone =>
          /\ 2 * margin_x = (IF n_cols > 0 THEN Fsub(plate_length, span_x) ELSE plate_length)
          /\ 2 * margin_y = (IF n_rows > 0 THEN Fsub(plate_width, span_y) ELSE plate_width)

(***************************************************************************)
(* Properties.                                                             *)
(***************************************************************************)

\* C1 as stated: with the script's parameters the layout yields n_cols = 10,
\* n_rows = 5, margin_x = 0 and margin_y = 0.
C1_AsStated ==
    (IsScript /\ LayoutDone) =>
        n_cols = 10 /\ n_rows = 5 /\ margin_x = 0 /\ margin_y = 0

\* C1 amended: with the script's parameters the layout yields n_cols = 10,
\* n_rows = 5, span_x = 95, span_y = 45 and margin_x = margin_y = 2.5.
C1_ScriptLayout ==
    (IsScript /\ LayoutDone) =>
        /\ n_cols = 10 /\ n_rows = 5
        /\ span_x = 95 * MM /\ span_y = 45 * MM
        /\ 2 * margin_x = 5 * MM /\ 2 * margin_y = 5 * MM

C1_Witness == IsScript /\ pc = "makeBox" /\ n_cols = 10

\* the grid positions of the accepted holes
AcceptedPos == { <<hole_tools[i].row, hole_tools[i].col>> : i \in DOMAIN hole_tools }

\* C2 as stated: with the script's parameters the enumeration evaluates 50
\* grid positions and accepts all of them, the last column of row 1 included,
\* so hole_tools ends with 50 entries.
C2_AsStated ==
    (IsScript /\ EnumDone) =>
        /\ evaluated = 50
        /\ Len(hole_tools) = 50
        /\ <<1, 9>> \in AcceptedPos

\* C2 amended: with the script's parameters the enumeration evaluates 50 grid
\* positions and accepts 48: the last column (col = 9) of rows 1 and 3 has
\* cx = 100 and cx + hole_radius = 102.5 > plate_length + tol and is rejected,
\* every other position is accepted.
C2_ScriptHoles ==
    (IsScript /\ EnumDone) =>
        /\ evaluated = 50
        /\ Len(hole_tools) = 48
        /\ AcceptedPos = ((0..4) \X (0..9)) \ {<<1, 9>>, <<3, 9>>}
        /\ Fadd(Fadd(Fadd(Fadd(margin_x, hole_radius), FmulInt(9, pitch_x)),
                     pitch_x \div 2), hole_radius) = 205 * (MM \div 2)
        /\ 205 * (MM \div 2) > PlusTol(plate_length)

C2_Witness == IsScript /\ pc = "cut" /\ evaluated = 50

\* C3: every hole appended to hole_tools has a centre with
\* cx - hole_radius >= -tol, cx + hole_radius <= plate_length + tol,
\* cy - hole_radius >= -tol and cy + hole_radius <= plate_width + tol.
C3_AcceptedInsidePlate ==
    \A i \in DOMAIN hole_tools :
        /\ Rnd(hole_tools[i].cx - hole_radius) >= NegTol
        /\ Rnd(hole_tools[i].cx + hole_radius) <= PlusTol(plate_length)
        /\ Rnd(hole_tools[i].cy - hole_radius) >= NegTol
        /\ Rnd(hole_tools[i].cy + hole_radius) <= PlusTol(plate_width)

\* some position has been rejected and some accepted
C3_Witness == Len(hole_tools) > 0 /\ evaluated > Len(hole_tools)

\* C4 as stated: when the hole fits (plate_length >= hole_diameter) the layout
\* gives n_cols >= 1, span_x <= plate_length and margin_x >= 0; the same for
\* n_rows, span_y and margin_y.
C4_AsStated ==
    LayoutDone =>
        /\ plate_length >= hole_diameter =>
              n_cols >= 1 /\ span_x <= plate_length /\ margin_x >= 0
        /\ plate_width >= hole_diameter =>
              n_rows >= 1 /\ span_y <= plate_width /\ margin_y >= 0

\* C4 amended: when the hole fits, n_cols >= 1; span_x <= plate_length and
\* margin_x >= 0 hold when no operation of the layout rounds, and up to
\* rounding otherwise: span_x <= plate_length * (1 + 5 * 2^-PrecBits) and
\* margin_x >= -3 * 2^-PrecBits * plate_length.  The same for the rows.
C4_SpanWithinRounding ==
    LayoutDone =>
        /\ plate_length >= hole_diameter =>
              /\ n_cols >= 1
              /\ 2^PrecBits * (span_x - plate_length) <= 5 * plate_length
              /\ 2^PrecBits * (-margin_x) <= 3 * plate_length
              /\ LayoutExact(plate_length, hole_diameter, pitch_x) =>
                    span_x <= plate_length /\ margin_x >= 0
        /\ plate_width >= hole_diameter =>
              /\ n_rows >= 1
              /\ 2^PrecBits * (span_y - plate_width) <= 5 * plate_width
              /\ 2^PrecBits * (-margin_y) <= 3 * plate_width
              /\ LayoutExact(plate_width, hole_diameter, pitch_y) =>
                    span_y <= plate_width /\ margin_y >= 0

\* a layout whose rounding pushed the span past the plate
C4_Witness == LayoutDone /\ n_cols >= 2 /\ span_x > plate_length /\ margin_x < 0

\* C5: when plate_length < hole_diameter, n_cols = 0, margin_x = plate_length/2,
\* the column loop body never runs and hole_tools stays empty whatever
\* plate_width and pitch_y are; the same for plate_width < hole_diameter and
\* n_rows = 0.
C5_HoleDoesNotFit ==
    /\ plate_length < hole_diameter =>
          /\ evaluated = 0 /\ hole_tools = <<>>
          /\ LayoutDone => (n_cols = 0 /\ 2 * margin_x = plate_length)
    /\ plate_width < hole_diameter =>
          /\ evaluated = 0 /\ hole_tools = <<>>
          /\ LayoutDone => (n_rows = 0 /\ 2 * margin_y = plate_width)

\* the enumeration has run over at least two rows of a plate too short for a hole
C5_Witness ==
    /\ plate_length < hole_diameter /\ n_rows >= 2
    /\ pc = "cut" /\ row = n_rows

\* the steps after a completed boolean cut
CutDone == pc \in {"register", "makedirs", "exportStep", "exportObj", "done"}

\* C6: the boolean assembler performs exactly one cut of the base plate, with a
\* compound of all accepted holes, when hole_tools is non-empty, and no
\* compound or cut call at all when it is empty; in the empty case the shape
\* registered and exported is the unmodified base plate and both exports
\* still take place.
C6_OneCutOrNone ==
    /\ Len(compound_holes) <= 1 /\ Len(cut_tools) <= 1
    /\ hole_tools = <<>> => (compound_holes = <<>> /\ cut_tools = <<>>)
    /\ CutDone =>
          IF hole_tools # <<>>
          THEN /\ compound_holes = <<hole_tools>>
               /\ cut_tools = <<hole_tools>>
               /\ result_shape = "cut"
          ELSE result_shape = "base_plate"
    /\ plate_obj # "none" => plate_obj = result_shape
    /\ pc = "done" =>
          /\ exported = {"step", "obj"}
          /\ plate_obj = result_shape
          /\ base_plate = "box"

\* a run with no hole has finished: the base plate was exported twice
C6_Witness ==
    /\ pc = "done" /\ hole_tools = <<>> /\ n_rows >= 1
    /\ plate_obj = "base_plate" /\ exported = {"step", "obj"}

\* C7 as stated: two accepted holes at the same column in adjacent rows have
\* centre x-coordinates that differ by exactly pitch_x/2.
C7_AsStated ==
    \A i, j \in DOMAIN hole_tools :
        (hole_tools[i].col = hole_tools[j].col /\ hole_tools[j].row = hole_tools[i].row + 1)
            => Abs(hole_tools[j].cx - hole_tools[i].cx) = pitch_x \div 2

\* C7 amended: the x-offset is exactly 0 in every even row and pitch_x/2 in
\* every odd row and does not accumulate; for two accepted holes at the same
\* column in adjacent rows the centre of the odd row is the centre of the even
\* row plus pitch_x/2 rounded once, so the two differ by exactly pitch_x/2
\* when that sum is a float.
C7_Stagger ==
    /\ pc = "col" => x_offset = (IF row % 2 = 1 THEN pitch_x \div 2 ELSE 0)
    /\ \A i, j \in DOMAIN hole_tools :
          (hole_tools[i].col = hole_tools[j].col /\ hole_tools[j].row = hole_tools[i].row + 1)
              => LET e == IF hole_tools[i].row % 2 = 0 THEN hole_tools[i] ELSE hole_tools[j]
                     o == IF hole_tools[i].row % 2 = 0 THEN hole_tools[j] ELSE hole_tools[i]
                 IN  /\ o.cx = Rnd(e.cx + pitch_x \div 2)
                     /\ Exact(e.cx + pitch_x \div 2) => o.cx - e.cx = pitch_x \div 2

\* one column holds accepted holes in three successive rows
C7_Witness ==
    \E i, j, k \in DOMAIN hole_tools :
        /\ hole_tools[i].col = hole_tools[j].col /\ hole_tools[j].col = hole_tools[k].col
        /\ hole_tools[j].row = hole_tools[i].row + 1
        /\ hole_tools[k].row = hole_tools[j].row + 1

\* the accepted holes as a function of the parameters alone: the grid
\* positions in row-major order, filtered by the boundary check
ExpectedTools ==
    LET nc == NCount(plate_length, hole_diameter, pitch_x)
        nr == NCount(plate_width, hole_diameter, pitch_y)
        mx == Margin(nc, plate_length, hole_diameter, pitch_x)
        my == Margin(nr, plate_width, hole_diameter, pitch_y)
        at(i) == LET rw == (i - 1) \div nc
                     cl == (i - 1) % nc
                 IN  [row |-> rw, col |-> cl,
                      cx |-> ColCx(mx, hole_radius, cl, pitch_x, XOffset(rw, pitch_x)),
                      cy |-> RowCy(my, hole_radius, rw, pitch_y)]
        inside(h) == BoundaryOK(h.cx, h.cy, hole_radius, plate_length, plate_width)
    IN  SelectSeq([i \in 1..(nr * nc) |-> at(i)], inside)

\* C8: the sequence of accepted holes is a function of the parameters only and
\* is in row-major order: a hole of row r precedes every hole of a later row,
\* and within a row a hole of column c precedes every hole of a later column.
C8_RowMajorFunctionOfInputs ==
    /\ \A i, j \in DOMAIN hole_tools :
          i < j => \/ hole_tools[i].row < hole_tools[j].row
                   \/ /\ hole_tools[i].row = hole_tools[j].row
                      /\ hole_tools[i].col < hole_tools[j].col
    /\ LET expected == ExpectedTools
       IN  /\ Len(hole_tools) <= Len(expected)
           /\ hole_tools = SubSeq(expected, 1, Len(hole_tools))
           /\ EnumDone => hole_tools = expected

\* the enumeration is complete with holes in several rows and columns, some
\* positions rejected
C8_Witness ==
    /\ pc = "cut" /\ Len(hole_tools) >= 4 /\ evaluated > Len(hole_tools)
    /\ \E i, j \in DOMAIN hole_tools :
          hole_tools[i].row # hole_tools[j].row /\ hole_tools[i].col # hole_tools[j].col

\* the place of a call, and of a statement, in the script
CallRank(c) ==
    CASE c = "makeBox" -> 1
      [] c = "make_hexagon_hole" -> 2
      [] c = "makeCompound" -> 3
      [] c = "cut" -> 4
      [] c = "addObject" -> 5
      [] c = "makedirs" -> 6
      [] c = "exportStep" -> 7
      [] c = "exportObj" -> 8

PcRank(s) ==
    CASE s = "layout" -> 0
      [] s = "makeBox" -> 1
      [] s \in {"row", "col"} -> 2
      [] s = "cut" -> 3
      [] s = "register" -> 5
      [] s = "makedirs" -> 6
      [] s = "exportStep" -> 7
      [] s = "exportObj" -> 8
      [] s = "done" -> 9
      [] s = "failed" -> 10

Called(c) == \E i \in DOMAIN calls : calls[i] = c

\* the calls made so far are in script order, none but the hole construction
\* made twice, and each export comes after what it depends on
C9_Order ==
    /\ \A i, j \in DOMAIN calls :
          i < j => \/ CallRank(calls[i]) < CallRank(calls[j])
                   \/ calls[i] = "make_hexagon_hole" /\ calls[j] = "make_hexagon_hole"
    /\ Called("exportStep") => plate_obj # "none" /\ plate_obj = result_shape
    /\ Called("exportObj") => "step" \in exported /\ plate_obj # "none"
    /\ "obj" \in exported => "step" \in exported
    /\ pc = "failed" => calls # <<>> /\ "obj" \notin exported

\* a step moves forward in the script, never back, and nothing follows a failure
C9_Step ==
    /\ pc # "failed"
    /\ PcRank(pc') >= PcRank(pc)
    /\ pc \notin {"row", "col"} => PcRank(pc') > PcRank(pc)
    /\ pc' = "failed" => (calls' # calls /\ exported' = exported /\ plate_obj' = plate_obj)

\* C9: the run is a fixed linear sequence with no retry: a failure of any
\* kernel or export step terminates the run and no later step executes, the
\* OBJ export is attempted only after the STEP export has succeeded, and
\* neither export is attempted before the final shape has been registered.
C9_LinearNoRetry == [](C9_Order) /\ [][C9_Step]_vars

\* the STEP export has failed: the run is over without an OBJ export
C9_Witness ==
    /\ pc = "failed" /\ calls[Len(calls)] = "exportStep"
    /\ exported = {} /\ plate_obj # "none"

\* the grid positions the boundary check is claimed to reject
LastColOfOddRows == { <<rw, n_cols - 1>> : rw \in { r \in 0..(n_rows - 1) : r % 2 = 1 } }

\* what C10 says of a run, given the test "rej" under which the last column of
\* the odd rows is said to be rejected
C10_Body(rej) ==
    /\ 0 <= margin_x /\ margin_x < pitch_x \div 2
    /\ EnumDone =>
          /\ AcceptedPos =
                ((0..(n_rows - 1)) \X (0..(n_cols - 1))) \
                    (IF rej THEN LastColOfOddRows ELSE {})
          /\ rej => Len(hole_tools) = n_rows * n_cols - n_rows \div 2
          /\ IsScript => Len(hole_tools) = 48

====
